---- MODULE Spec2Model ----
(***************************************************************************)
(* Model of main.py: the lineup similarity evaluator (calculate_distance,  *)
(* calculate_angle_difference, is_similar_lineup), the merge engine        *)
(* (merge_lineups) and the group-level fold of combine_json_files.         *)
(*                                                                         *)
(* A lineup (a Python dict) is a TLA+ function whose DOMAIN is the set of  *)
(* keys the dict holds.  Every lineup of the model carries an opaque       *)
(* payload key "name"; "position" and "viewangles" may be absent.          *)
(*                                                                         *)
(* math.sqrt is not computed: calculate_distance and                       *)
(* calculate_angle_difference yield the radicand handed to math.sqrt, and  *)
(* SqrtLeq(radicand, bound) is the comparison  math.sqrt(radicand) <= bound*)
(* which for integer radicands and integer bounds is  bound >= 0 and       *)
(* radicand <= bound * bound.                                              *)
(***************************************************************************)
EXTENDS Integers, Sequences, FiniteSets, TLC

VARIABLES
    \* ---- thresholds of the running call (all specifications) ----
    max_pos, max_angle,
    \* ---- similarity evaluator (SpecSim) ----
    lineup1, lineup2,       \* the two records compared
    sim_calls,              \* which of the two argument orders were evaluated
    similar, similar_rev,   \* is_similar_lineup(.., lineup1, lineup2) / (.., lineup2, lineup1)
    \* ---- normalize_angle (SpecNorm) ----
    norm_in, norm_out, norm_pc,
    \* ---- merge_lineups (SpecMerge) ----
    heap,                   \* the list objects: "existing", "new" (the arguments), "copy"
    result,                 \* the list object the local `result` is bound to
    idx,                    \* candidates of new_lineups already processed
    lineups_added, duplicates_skipped,
    dup_log,                \* is_duplicate of each iteration so far
    mpc, call,
    \* ---- combine_json_files (Spec) ----
    combined_data,          \* dict: map name -> list of lineups
    json_files_left,        \* files of json_files not yet visited
    file_keys,              \* keys of the open file already iterated
    map_name, lineups,      \* loop variables of `for map_name, lineups in file_data.items()`
    files_processed, empty_maps_removed,
    output, saved, cpc

sim_vars == <<lineup1, lineup2, sim_calls, similar, similar_rev>>
norm_vars == <<norm_in, norm_out, norm_pc>>
merge_vars == <<heap, result, idx, lineups_added, duplicates_skipped, dup_log, mpc, call>>
combine_vars == <<combined_data, json_files_left, file_keys, map_name, lineups,
                  files_processed, empty_maps_removed, output, saved, cpc>>
thr_vars == <<max_pos, max_angle>>
vars == <<thr_vars, sim_vars, norm_vars, merge_vars, combine_vars>>

----------------------------------------------------------------------------
\* Pure functions of main.py

Abs(x) == IF x < 0 THEN -x ELSE x

Min(a, b) == IF a <= b THEN a ELSE b

\* Mutant of SqrtLeq: the threshold comparison made strict (< for <=)
SqrtLeq_strict(radicand, bound) ==
    bound > 0 /\ radicand < bound * bound

\* math.sqrt(radicand) <= bound, for an integer radicand >= 0 and an integer bound
SqrtLeq(radicand, bound) ==
    bound >= 0 /\ radicand <= bound * bound

RECURSIVE SumSqDiff(_, _, _)
\* sum((a - b) ** 2 for a, b in zip(pos1, pos2)) over the first n pairs
SumSqDiff(pos1, pos2, n) ==
    IF n = 0 THEN 0
    ELSE SumSqDiff(pos1, pos2, n - 1) + (pos1[n] - pos2[n]) * (pos1[n] - pos2[n])

\* calculate_distance: the radicand of the Euclidean distance (zip stops at the shorter operand)
calculate_distance(pos1, pos2) ==
    SumSqDiff(pos1, pos2, Min(Len(pos1), Len(pos2)))

\* Mutant of while_gt_180: a single `if` in place of the loop
while_gt_180_once(angle) ==
    IF angle > 180 THEN angle - 360 ELSE angle

RECURSIVE while_gt_180(_)
\* while angle > 180: angle -= 360
while_gt_180(angle) ==
    IF angle > 180 THEN while_gt_180(angle - 360) ELSE angle

RECURSIVE while_lt_m180(_)
\* while angle < -180: angle += 360
while_lt_m180(angle) ==
    IF angle < -180 THEN while_lt_m180(angle + 360) ELSE angle

\* Mutant of normalize_angle: reduction into [0, 360) by a plain modulo
normalize_angle_mod(angle) ==
    angle % 360

\* normalize_angle: the two loops in sequence
normalize_angle(angle) ==
    while_lt_m180(while_gt_180(angle))

\* Mutant of calculate_angle_difference: raw absolute differences, no wraparound at all
calculate_angle_difference_nowrap(angle1, angle2) ==
    LET pitch_diff == Abs(angle1[1] - angle2[1])
        yaw_diff   == Abs(angle1[2] - angle2[2])
    IN  pitch_diff * pitch_diff + yaw_diff * yaw_diff

\* calculate_angle_difference: the radicand pitch_diff**2 + yaw_diff**2
calculate_angle_difference(angle1, angle2) ==
    LET pitch_diff == Abs(normalize_angle(angle1[1] - angle2[1]))
        yaw_raw    == Abs(normalize_angle(angle1[2] - angle2[2]))
        yaw_diff   == IF yaw_raw > 180 THEN 360 - yaw_raw ELSE yaw_raw
    IN  pitch_diff * pitch_diff + yaw_diff * yaw_diff

\* Mutant of is_similar_lineup: an absent field read as a default (dict.get) instead of
\* ending the comparison
is_similar_lineup_defaulting(mp, ma, l1, l2) ==
    LET pos(l) == IF "position" \in DOMAIN l THEN l["position"] ELSE <<0, 0, 0>>
        ang(l) == IF "viewangles" \in DOMAIN l THEN l["viewangles"] ELSE <<0, 0>>
    IN  /\ SqrtLeq(calculate_distance(pos(l1), pos(l2)), mp)
        /\ SqrtLeq(calculate_angle_difference(ang(l1), ang(l2)), ma)

\* is_similar_lineup
is_similar_lineup(mp, ma, l1, l2) ==
    IF "position" \notin DOMAIN l1 \/ "position" \notin DOMAIN l2 THEN FALSE
    ELSE IF "viewangles" \notin DOMAIN l1 \/ "viewangles" \notin DOMAIN l2 THEN FALSE
    ELSE LET pos_distance == calculate_distance(l1["position"], l2["position"])
             angle_diff   == calculate_angle_difference(l1["viewangles"], l2["viewangles"])
         IN  SqrtLeq(pos_distance, mp) /\ SqrtLeq(angle_diff, ma)

\* Mutant of is_duplicate: only the first record of result is compared
is_duplicate_first_only(mp, ma, result_list, new_lineup) ==
    Len(result_list) > 0 /\ is_similar_lineup(mp, ma, new_lineup, result_list[1])

\* for existing_lineup in result: if is_similar_lineup(.., new_lineup, existing_lineup)
is_duplicate(mp, ma, result_list, new_lineup) ==
    \E k \in 1..Len(result_list) :
        is_similar_lineup(mp, ma, new_lineup, result_list[k])

\* Mutant of merge_iteration: an accepted candidate is inserted at the front
merge_iteration_prepend(mp, ma, result_list, new_lineup) ==
    IF \E k \in 1..Len(result_list) : is_similar_lineup(mp, ma, new_lineup, result_list[k])
    THEN result_list
    ELSE <<new_lineup>> \o result_list

\* One iteration of `for new_lineup in new_lineups`: the list `result` afterwards
merge_iteration(mp, ma, result_list, new_lineup) ==
    IF is_duplicate(mp, ma, result_list, new_lineup)
    THEN result_list
    ELSE Append(result_list, new_lineup)

RECURSIVE merge_loop(_, _, _, _, _)
\* the for loop of merge_lineups from candidate i on
merge_loop(mp, ma, result_list, new_list, i) ==
    IF i > Len(new_list) THEN result_list
    ELSE merge_loop(mp, ma, merge_iteration(mp, ma, result_list, new_list[i]), new_list, i + 1)

\* merge_lineups as a function of its arguments' values
merge_lineups(mp, ma, existing_list, new_list) ==
    merge_loop(mp, ma, existing_list, new_list, 1)

\* Mutant of list_copy: `result = existing_lineups` (an alias, no copy)
list_alias(h, src) ==
    [heap |-> h, ref |-> src]

\* list.copy(): a new list object holding the same records
list_copy(h, src) ==
    [heap |-> [h EXCEPT !["copy"] = h[src]], ref |-> "copy"]

SeqsUpTo(S, n) == UNION {[1..k -> S] : k \in 0..n}

----------------------------------------------------------------------------
\* Values of the variables of the components a specification does not run

EmptyDict == [m \in {} |-> <<>>]

IdleSim ==
    /\ lineup1 = [name |-> "s"]
    /\ lineup2 = [name |-> "s"]
    /\ sim_calls = {}
    /\ similar = FALSE
    /\ similar_rev = FALSE

IdleNorm ==
    /\ norm_in = 0
    /\ norm_out = 0
    /\ norm_pc = "idle"

IdleMerge ==
    /\ heap = [existing |-> <<>>, new |-> <<>>, copy |-> <<>>]
    /\ result = "none"
    /\ idx = 0
    /\ lineups_added = 0
    /\ duplicates_skipped = 0
    /\ dup_log = <<>>
    /\ mpc = "idle"
    /\ call = 0

IdleCombine ==
    /\ combined_data = EmptyDict
    /\ json_files_left = 0
    /\ file_keys = {}
    /\ map_name = "none"
    /\ lineups = [is_list |-> FALSE, items |-> <<>>]
    /\ files_processed = 0
    /\ empty_maps_removed = 0
    /\ output = <<>>
    /\ saved = FALSE
    /\ cpc = "idle"

----------------------------------------------------------------------------
\* SpecSim: is_similar_lineup applied to bounded inputs, in both argument orders

SimPositions == {<<0, 0, 0>>, <<6, 8, 0>>}
PitchValues  == {0, 3, 170, 179, 180}
YawValues    == {-180, -179, 0, 4, 170, 179, 180, 540}
SimMaxPos    == {0, 10}
SimMaxAngle  == {0, 5}

SimLineups ==
    {[name |-> "s", position |-> p, viewangles |-> <<pi, ya>>] :
        p \in SimPositions, pi \in PitchValues, ya \in YawValues}
    \cup {[name |-> "s", viewangles |-> a] : a \in {<<0, 0>>, <<179, 179>>}}
    \cup {[name |-> "s", position |-> p] : p \in SimPositions}
    \cup {[name |-> "s"]}

InitSim ==
    /\ max_pos \in SimMaxPos
    /\ max_angle \in SimMaxAngle
    /\ lineup1 \in SimLineups
    /\ lineup2 \in SimLineups
    /\ sim_calls = {}
    /\ similar = FALSE
    /\ similar_rev = FALSE
    /\ IdleNorm /\ IdleMerge /\ IdleCombine

Compare ==
    /\ "fwd" \notin sim_calls
    /\ similar' = is_similar_lineup(max_pos, max_angle, lineup1, lineup2)
    /\ sim_calls' = sim_calls \cup {"fwd"}
    /\ UNCHANGED <<lineup1, lineup2, similar_rev>>
    /\ UNCHANGED <<thr_vars, norm_vars, merge_vars, combine_vars>>

CompareReversed ==
    /\ "rev" \notin sim_calls
    /\ similar_rev' = is_similar_lineup(max_pos, max_angle, lineup2, lineup1)
    /\ sim_calls' = sim_calls \cup {"rev"}
    /\ UNCHANGED <<lineup1, lineup2, similar>>
    /\ UNCHANGED <<thr_vars, norm_vars, merge_vars, combine_vars>>

NextSim == Compare \/ CompareReversed

SpecSim == InitSim /\ [][NextSim]_vars

HasBoth(l) == "position" \in DOMAIN l /\ "viewangles" \in DOMAIN l

\* C4: whenever either record lacks position or lacks viewangles, is_similar_lineup
\* returns False (a defined Boolean result), in either argument order, for every
\* threshold pair, also when the record is compared with itself.
MissingFieldNeverSimilar ==
    (~HasBoth(lineup1) \/ ~HasBoth(lineup2)) =>
        /\ ("fwd" \in sim_calls => similar = FALSE)
        /\ ("rev" \in sim_calls => similar_rev = FALSE)

\* C4 witness: a record without position compared with itself under thresholds that make
\* every complete record self-similar
MissingFieldSelfCompared ==
    /\ "fwd" \in sim_calls
    /\ lineup1 = lineup2
    /\ "position" \notin DOMAIN lineup1
    /\ "viewangles" \in DOMAIN lineup1
    /\ max_pos = 10 /\ max_angle = 5
    /\ similar = FALSE

\* C5: is_similar_lineup(p, a, t1, t2) = is_similar_lineup(p, a, t2, t1) for all
\* thresholds and records of the bounded universe.
SimilarSymmetric ==
    ({"fwd", "rev"} \subseteq sim_calls) => (similar = similar_rev)

\* C5 witness: both orders evaluated on a pair whose raw yaw difference is 360 one way and
\* -360 the other and whose raw pitch difference is 3 and -3; the pair is similar both ways
SymmetricBothOrders ==
    /\ sim_calls = {"fwd", "rev"}
    /\ HasBoth(lineup1) /\ HasBoth(lineup2)
    /\ lineup1["viewangles"] = <<3, 540>>
    /\ lineup2["viewangles"] = <<0, 180>>
    /\ similar /\ similar_rev

\* C10: with equal position and equal pitch, yaw 179 against -179 is similar at
\* max_angle = 5 (the yaw difference wraps to 2); with equal position, pitch and yaw both
\* 179 against both 170 is not similar at max_angle = 5 (9 on each axis, no wrap).
YawWraparound ==
    ("fwd" \in sim_calls /\ HasBoth(lineup1) /\ HasBoth(lineup2) /\ max_angle = 5
        /\ lineup1["position"] = lineup2["position"]) =>
        /\ (/\ lineup1["viewangles"][1] = lineup2["viewangles"][1]
            /\ {lineup1["viewangles"][2], lineup2["viewangles"][2]} = {179, -179})
           => similar = TRUE
        /\ (/\ lineup1["viewangles"] = <<179, 179>>
            /\ lineup2["viewangles"] = <<170, 170>>)
           => similar = FALSE

\* C10 witness: the wrapping pair has been compared and found similar
YawWraparoundCompared ==
    /\ "fwd" \in sim_calls
    /\ HasBoth(lineup1) /\ HasBoth(lineup2)
    /\ lineup1["position"] = lineup2["position"]
    /\ lineup1["viewangles"] = <<0, 179>>
    /\ lineup2["viewangles"] = <<0, -179>>
    /\ max_angle = 5
    /\ similar

----------------------------------------------------------------------------
\* SpecNorm: normalize_angle applied to every raw difference of a bounded range

MaxRaw == 1000

InitNorm ==
    /\ norm_in \in -MaxRaw..MaxRaw
    /\ norm_out = 0
    /\ norm_pc = "call"
    /\ max_pos = 0 /\ max_angle = 0
    /\ IdleSim /\ IdleMerge /\ IdleCombine

NormalizeCall ==
    /\ norm_pc = "call"
    /\ norm_out' = normalize_angle(norm_in)
    /\ norm_pc' = "done"
    /\ UNCHANGED <<norm_in, thr_vars, sim_vars, merge_vars, combine_vars>>

NextNorm == NormalizeCall

SpecNorm == InitNorm /\ [][NextNorm]_vars

\* C6 as stated: the normalized value lies in the half-open interval (-180, 180], is
\* congruent to the input modulo 360, and 180 and -180 both normalize to 180.
NormalizeHalfOpen ==
    norm_pc = "done" =>
        /\ norm_out > -180 /\ norm_out <= 180
        /\ (norm_out - norm_in) % 360 = 0
        /\ (norm_in \in {180, -180} => norm_out = 180)

\* C6 amended: the normalized value lies in the closed interval [-180, 180] and is
\* congruent to the input modulo 360; it is -180 exactly for inputs <= -180 congruent to
\* 180, so 180 normalizes to 180 and -180 normalizes to -180.
NormalizeClosed ==
    norm_pc = "done" =>
        /\ norm_out >= -180 /\ norm_out <= 180
        /\ (norm_out - norm_in) % 360 = 0
        /\ (norm_out = -180 <=> (norm_in <= -180 /\ (norm_in - 180) % 360 = 0))
        /\ (norm_in = 180 => norm_out = 180)
        /\ (norm_in = -180 => norm_out = -180)

\* C6 witness: an input outside [-360, 360] that several loop iterations bring to -180
NormalizeFarBoundary ==
    norm_pc = "done" /\ norm_in = -900 /\ norm_out = -180

----------------------------------------------------------------------------
\* SpecMerge: one call of merge_lineups, run statement by statement, then the same batch
\* merged again into the list the first call returned

LA     == [name |-> "a", position |-> <<0, 0, 0>>, viewangles |-> <<0, 0>>]
LB     == [name |-> "b", position |-> <<1, 0, 0>>, viewangles |-> <<0, 0>>]
LC     == [name |-> "c", position |-> <<2, 0, 0>>, viewangles |-> <<0, 3>>]
LNoPos == [name |-> "d", viewangles |-> <<0, 0>>]
LNoAng == [name |-> "e", position |-> <<0, 0, 0>>]

MergeLineups  == {LA, LB, LC, LNoPos, LNoAng}
MergeMaxPos   == {0, 1, 10}
MergeMaxAngle == {0, 5}

MaxExisting == 1
MaxBatch    == 2

InitMerge ==
    /\ max_pos \in MergeMaxPos
    /\ max_angle \in MergeMaxAngle
    /\ \E e \in SeqsUpTo(MergeLineups, MaxExisting), c \in SeqsUpTo(MergeLineups, MaxBatch) :
          heap = [existing |-> e, new |-> c, copy |-> <<>>]
    /\ result = "none"
    /\ idx = 0
    /\ lineups_added = 0
    /\ duplicates_skipped = 0
    /\ dup_log = <<>>
    /\ mpc = "start"
    /\ call = 1
    /\ IdleSim /\ IdleNorm /\ IdleCombine

\* result = existing_lineups.copy(); lineups_added = 0; duplicates_skipped = 0
MergeCopy ==
    /\ mpc = "start"
    /\ LET c == list_copy(heap, "existing")
       IN  heap' = c.heap /\ result' = c.ref
    /\ idx' = 0
    /\ lineups_added' = 0
    /\ duplicates_skipped' = 0
    /\ dup_log' = <<>>
    /\ mpc' = "loop"
    /\ UNCHANGED <<call, thr_vars, sim_vars, norm_vars, combine_vars>>

\* one iteration of `for new_lineup in new_lineups`
MergeIter ==
    /\ mpc = "loop"
    /\ idx < Len(heap["new"])
    /\ LET new_lineup == heap["new"][idx + 1]
           dup        == is_duplicate(max_pos, max_angle, heap[result], new_lineup)
       IN  /\ heap' = [heap EXCEPT ![result] =
                          merge_iteration(max_pos, max_angle, @, new_lineup)]
           /\ dup_log' = Append(dup_log, dup)
           /\ lineups_added' = IF dup THEN lineups_added ELSE lineups_added + 1
           /\ duplicates_skipped' = IF dup THEN duplicates_skipped + 1 ELSE duplicates_skipped
    /\ idx' = idx + 1
    /\ UNCHANGED <<result, mpc, call, thr_vars, sim_vars, norm_vars, combine_vars>>

\* return result
MergeReturn ==
    /\ mpc = "loop"
    /\ idx = Len(heap["new"])
    /\ mpc' = "returned"
    /\ UNCHANGED <<heap, result, idx, lineups_added, duplicates_skipped, dup_log, call>>
    /\ UNCHANGED <<thr_vars, sim_vars, norm_vars, combine_vars>>

\* The caller stores the returned list and merges the same batch into it again
\* (combined_data[map_name] = merge_lineups(.., combined_data[map_name], lineups))
MergeReplay ==
    /\ mpc = "returned"
    /\ call = 1
    /\ heap' = [existing |-> heap[result], new |-> heap["new"], copy |-> <<>>]
    /\ result' = "none"
    /\ idx' = 0
    /\ lineups_added' = 0
    /\ duplicates_skipped' = 0
    /\ dup_log' = <<>>
    /\ mpc' = "start"
    /\ call' = 2
    /\ UNCHANGED <<thr_vars, sim_vars, norm_vars, combine_vars>>

NextMerge == MergeCopy \/ MergeIter \/ MergeReturn \/ MergeReplay

SpecMerge == InitMerge /\ [][NextMerge]_vars

LacksField(l) == ~HasBoth(l)

RECURSIVE Accepted(_, _, _)
\* the candidates among the first n whose logged decision was "not a duplicate", in order
Accepted(new_list, log, n) ==
    IF n = 0 THEN <<>>
    ELSE IF log[n] THEN Accepted(new_list, log, n - 1)
         ELSE Append(Accepted(new_list, log, n - 1), new_list[n])

RECURSIVE IsSubseq(_, _)
\* s is a subsequence of t (order kept, elements possibly skipped)
IsSubseq(s, t) ==
    IF s = <<>> THEN TRUE
    ELSE IF t = <<>> THEN FALSE
    ELSE IF Head(s) = Head(t) THEN IsSubseq(Tail(s), Tail(t))
    ELSE IsSubseq(s, Tail(t))

\* C1 as stated: merge(E, []) = E, and merging the same batch a second time into the
\* result of the first merge returns that result unchanged.
MergeIdempotent ==
    mpc = "returned" =>
        /\ (heap["new"] = <<>> => heap[result] = heap["existing"])
        /\ (call = 2 => heap[result] = heap["existing"])

\* C1 amended: merge(E, []) = E, and the replay returns the first result followed by
\* the candidates of the batch that lack position or viewangles (each is appended again);
\* so the replay changes nothing exactly when every candidate has both fields.
MergeIdempotentUpToMissing ==
    mpc = "returned" =>
        /\ (heap["new"] = <<>> => heap[result] = heap["existing"])
        /\ (call = 2 =>
               heap[result] = heap["existing"] \o SelectSeq(heap["new"], LacksField))

\* C1 witness: a replay of a two-record batch of complete records, one of which the
\* first call had accepted, has returned
ReplayReturned ==
    /\ mpc = "returned" /\ call = 2
    /\ heap["new"] = <<LA, LC>>
    /\ max_pos = 0
    /\ Len(heap["existing"]) = 3
    /\ duplicates_skipped = 2

\* C2: the returned list is the existing list (same records, same order) followed by the
\* accepted candidates in their order in the batch; the part after the existing records
\* is a subsequence of the batch.
MergeOrderPreserved ==
    mpc = "returned" =>
        LET r == heap[result]
            e == heap["existing"]
        IN  /\ Len(r) >= Len(e)
            /\ SubSeq(r, 1, Len(e)) = e
            /\ SubSeq(r, Len(e) + 1, Len(r)) = Accepted(heap["new"], dup_log, Len(heap["new"]))
            /\ IsSubseq(SubSeq(r, Len(e) + 1, Len(r)), heap["new"])
            /\ Len(r) = Len(e) + lineups_added

\* C2 witness: a call with a non-empty existing list that rejected the first candidate
\* and accepted the second has returned
MergeKeptOrder ==
    /\ mpc = "returned" /\ call = 1
    /\ heap["existing"] = <<LB>>
    /\ heap["new"] = <<LA, LC>>
    /\ dup_log = <<TRUE, FALSE>>
    /\ heap[result] = <<LB, LC>>

\* C3: a candidate is logged a duplicate iff it is similar to a record of the
\* accumulating result (existing plus the candidates accepted earlier in the call), the
\* result is the existing list plus the accepted candidates, every rejected candidate is
\* similar to a record of the result, and two candidates at distance 1 with equal view
\* angles merged into [] at max_pos = 10, max_angle = 5 give a result of length 1.
MergeAcceptIffNovel ==
    mpc \in {"loop", "returned"} =>
        LET e   == heap["existing"]
            new == heap["new"]
            r   == heap[result]
        IN  /\ Len(dup_log) = idx
            /\ r = e \o Accepted(new, dup_log, idx)
            /\ \A j \in 1..idx :
                 LET acc == e \o Accepted(new, dup_log, j - 1)
                 IN  dup_log[j] <=>
                        \E k \in 1..Len(acc) :
                            is_similar_lineup(max_pos, max_angle, new[j], acc[k])
            /\ \A j \in 1..idx :
                 dup_log[j] =>
                    \E k \in 1..Len(r) : is_similar_lineup(max_pos, max_angle, new[j], r[k])
            /\ (mpc = "returned" /\ e = <<>> /\ new = <<LA, LB>>
                    /\ max_pos = 10 /\ max_angle = 5) => Len(r) = 1

\* C3 witness: the second candidate of the batch was rejected against the first, which
\* the same call had accepted
RejectedAgainstSameBatch ==
    /\ mpc = "returned" /\ call = 1
    /\ heap["existing"] = <<>>
    /\ heap["new"] = <<LA, LB>>
    /\ max_pos = 10 /\ max_angle = 5
    /\ dup_log = <<FALSE, TRUE>>
    /\ heap[result] = <<LA>>

\* C7: while merge_lineups runs, the list passed as existing_lineups and the list passed
\* as new_lineups keep their records and their order, and the list returned is a list
\* object other than the two arguments.
MergeInputsUnchanged ==
    /\ [][(mpc = "start" \/ mpc = "loop") =>
            (heap'["existing"] = heap["existing"] /\ heap'["new"] = heap["new"])]_vars
    /\ [](mpc = "returned" => result \notin {"existing", "new"})

\* C7 witness: a call with a non-empty existing list has accepted a candidate and returned
MergeAppendedToCopy ==
    /\ mpc = "returned" /\ call = 1
    /\ Len(heap["existing"]) = 1
    /\ lineups_added = 2
    /\ Len(heap[result]) = 3

----------------------------------------------------------------------------
\* Spec: combine_json_files, the group-level fold over the files of the locs folder

POSITION_THRESHOLD == 10
ANGLE_THRESHOLD    == 5

LFar == [name |-> "f", position |-> <<20, 0, 0>>, viewangles |-> <<0, 0>>]

CombineLineups == {LA, LB, LFar}
MapOrder       == <<"de_dust2", "de_mirage">>      \* the map names, in sorted order
Maps           == {MapOrder[i] : i \in 1..Len(MapOrder)}

MaxFiles   == 2
MaxLineups == 1

\* combined_data[map_name] if the key exists, else the [] it is initialised to
existing_or_empty(combined, m) ==
    IF m \in DOMAIN combined THEN combined[m] ELSE <<>>

\* dict with d[m] = v set (the key is added when absent)
dict_set(d, m, v) ==
    [k \in DOMAIN d \cup {m} |-> IF k = m THEN v ELSE d[k]]

RECURSIVE all_lineups(_, _)
\* the records of the first n maps of MapOrder, concatenated
all_lineups(combined, n) ==
    IF n = 0 THEN <<>>
    ELSE all_lineups(combined, n - 1) \o existing_or_empty(combined, MapOrder[n])

\* Mutant of merge_into: candidates are deduplicated against the records of every group
merge_into_global(combined, m, items) ==
    LET everything == all_lineups(combined, Len(MapOrder))
        merged     == merge_lineups(POSITION_THRESHOLD, ANGLE_THRESHOLD, everything, items)
    IN  dict_set(combined, m,
                 existing_or_empty(combined, m)
                     \o SubSeq(merged, Len(everything) + 1, Len(merged)))

\* if map_name not in combined_data: combined_data[map_name] = []
\* combined_data[map_name] = merge_lineups(.., combined_data[map_name], lineups)
merge_into(combined, m, items) ==
    dict_set(combined, m,
             merge_lineups(POSITION_THRESHOLD, ANGLE_THRESHOLD,
                           existing_or_empty(combined, m), items))

\* Mutant of drop_empty_maps: no group is removed
drop_empty_maps_none(combined) ==
    combined

\* {map_name: lineups for map_name, lineups in combined_data.items() if lineups}
drop_empty_maps(combined) ==
    [m \in {k \in DOMAIN combined : combined[k] # <<>>} |-> combined[m]]

RECURSIVE json_dump_upto(_, _)
\* json.dump(.., sort_keys=True): the key/value pairs in sorted key order
json_dump_upto(d, n) ==
    IF n = 0 THEN <<>>
    ELSE IF MapOrder[n] \in DOMAIN d
         THEN Append(json_dump_upto(d, n - 1), [key |-> MapOrder[n], value |-> d[MapOrder[n]]])
         ELSE json_dump_upto(d, n - 1)

json_dump(d) == json_dump_upto(d, Len(MapOrder))

Init ==
    /\ max_pos = POSITION_THRESHOLD
    /\ max_angle = ANGLE_THRESHOLD
    /\ combined_data = EmptyDict
    /\ json_files_left = 0
    /\ file_keys = {}
    /\ map_name = "none"
    /\ lineups = [is_list |-> FALSE, items |-> <<>>]
    /\ files_processed = 0
    /\ empty_maps_removed = 0
    /\ output = <<>>
    /\ saved = FALSE
    /\ cpc = "start"
    /\ IdleSim /\ IdleNorm /\ IdleMerge

\* if not locs_path.exists(): return
FolderMissing ==
    /\ cpc = "start"
    /\ cpc' = "done"
    /\ UNCHANGED <<combined_data, json_files_left, file_keys, map_name, lineups,
                   files_processed, empty_maps_removed, output, saved>>
    /\ UNCHANGED <<thr_vars, sim_vars, norm_vars, merge_vars>>

\* json_files = list(locs_path.glob("*.json"))
GlobFiles ==
    /\ cpc = "start"
    /\ \E n \in 0..MaxFiles : json_files_left' = n
    /\ cpc' = "files"
    /\ UNCHANGED <<combined_data, file_keys, map_name, lineups,
                   files_processed, empty_maps_removed, output, saved>>
    /\ UNCHANGED <<thr_vars, sim_vars, norm_vars, merge_vars>>

\* the next file is opened and json.load succeeds
OpenFile ==
    /\ cpc = "files"
    /\ json_files_left > 0
    /\ json_files_left' = json_files_left - 1
    /\ file_keys' = {}
    /\ cpc' = "maps"
    /\ UNCHANGED <<combined_data, map_name, lineups,
                   files_processed, empty_maps_removed, output, saved>>
    /\ UNCHANGED <<thr_vars, sim_vars, norm_vars, merge_vars>>

\* the next file cannot be read or parsed: the except clauses print and the loop goes on
OpenFileError ==
    /\ cpc = "files"
    /\ json_files_left > 0
    /\ json_files_left' = json_files_left - 1
    /\ UNCHANGED <<combined_data, file_keys, map_name, lineups,
                   files_processed, empty_maps_removed, output, saved, cpc>>
    /\ UNCHANGED <<thr_vars, sim_vars, norm_vars, merge_vars>>

\* an iteration of `for map_name, lineups in file_data.items()` whose value is a list
ProcessEntry ==
    /\ cpc = "maps"
    /\ \E m \in Maps \ file_keys, items \in SeqsUpTo(CombineLineups, MaxLineups) :
          /\ map_name' = m
          /\ lineups' = [is_list |-> TRUE, items |-> items]
          /\ combined_data' = merge_into(combined_data, m, items)
          /\ file_keys' = file_keys \cup {m}
    /\ UNCHANGED <<json_files_left, files_processed, empty_maps_removed, output, saved, cpc>>
    /\ UNCHANGED <<thr_vars, sim_vars, norm_vars, merge_vars>>

\* an iteration whose value is not a list: warning, continue
SkipEntry ==
    /\ cpc = "maps"
    /\ \E m \in Maps \ file_keys :
          /\ map_name' = m
          /\ file_keys' = file_keys \cup {m}
    /\ lineups' = [is_list |-> FALSE, items |-> <<>>]
    /\ UNCHANGED <<combined_data, json_files_left, files_processed, empty_maps_removed,
                   output, saved, cpc>>
    /\ UNCHANGED <<thr_vars, sim_vars, norm_vars, merge_vars>>

\* the items of the file are exhausted: files_processed += 1
EndFile ==
    /\ cpc = "maps"
    /\ files_processed' = files_processed + 1
    /\ cpc' = "files"
    /\ UNCHANGED <<combined_data, json_files_left, file_keys, map_name, lineups,
                   empty_maps_removed, output, saved>>
    /\ UNCHANGED <<thr_vars, sim_vars, norm_vars, merge_vars>>

\* after the last file: remove empty maps before saving
Cleanup ==
    /\ cpc = "files"
    /\ json_files_left = 0
    /\ combined_data' = drop_empty_maps(combined_data)
    /\ empty_maps_removed' =
          Cardinality(DOMAIN combined_data) - Cardinality(DOMAIN combined_data')
    /\ cpc' = "save"
    /\ UNCHANGED <<json_files_left, file_keys, map_name, lineups, files_processed,
                   output, saved>>
    /\ UNCHANGED <<thr_vars, sim_vars, norm_vars, merge_vars>>

\* json.dump(combined_data, output_handle, .., sort_keys=True)
Save ==
    /\ cpc = "save"
    /\ output' = json_dump(combined_data)
    /\ saved' = TRUE
    /\ cpc' = "done"
    /\ UNCHANGED <<combined_data, json_files_left, file_keys, map_name, lineups,
                   files_processed, empty_maps_removed>>
    /\ UNCHANGED <<thr_vars, sim_vars, norm_vars, merge_vars>>

\* the output file cannot be written: except Exception prints the error
SaveError ==
    /\ cpc = "save"
    /\ cpc' = "done"
    /\ UNCHANGED <<combined_data, json_files_left, file_keys, map_name, lineups,
                   files_processed, empty_maps_removed, output, saved>>
    /\ UNCHANGED <<thr_vars, sim_vars, norm_vars, merge_vars>>

Next ==
    \/ FolderMissing
    \/ GlobFiles
    \/ OpenFile
    \/ OpenFileError
    \/ ProcessEntry
    \/ SkipEntry
    \/ EndFile
    \/ Cleanup
    \/ Save
    \/ SaveError

Spec == Init /\ [][Next]_vars

\* group m is the same before and after the step (absent stays absent)
GroupUnchanged(m) ==
    /\ (m \in DOMAIN combined_data') <=> (m \in DOMAIN combined_data)
    /\ (m \in DOMAIN combined_data) => (combined_data'[m] = combined_data[m])

GroupPruning ==
    /\ [](saved =>
            /\ \A i \in 1..Len(output) : output[i].value # <<>>
            /\ \A i \in 1..Len(output) :
                  /\ output[i].key \in DOMAIN combined_data
                  /\ output[i].value = combined_data[output[i].key]
            /\ \A m \in DOMAIN combined_data : \E i \in 1..Len(output) : output[i].key = m
            /\ Len(output) = Cardinality(DOMAIN combined_data))
    /\ [][(cpc = "files" /\ cpc' = "save") =>
            \A m \in Maps :
                IF m \in DOMAIN combined_data /\ combined_data[m] # <<>>
                THEN m \in DOMAIN combined_data' /\ combined_data'[m] = combined_data[m]
                ELSE m \notin DOMAIN combined_data'
         ]_vars
    /\ [][(cpc = "save" \/ cpc = "done") => combined_data' = combined_data]_vars

\* C9 witness: the output was saved with one group after an empty group was removed
SavedAfterPruning ==
    /\ cpc = "done"
    /\ saved
    /\ empty_maps_removed = 1
    /\ Len(output) = 1
    /\ output[1].key = "de_mirage"
    /\ output[1].value = <<LA, LFar>>

====
